---- MODULE Spec2Model ----
(***************************************************************************)
(* Conditional variational auto-encoder of model_cvae/model.py.            *)
(*                                                                         *)
(* The model follows the TensorFlow 1.x graph the class builds: every      *)
(* tensor of _create_network is a node with its inputs (Deps) and its      *)
(* shape (the Shape_* operators, used both for the static shapes of graph  *)
(* construction and for the shapes of one session run), the session holds  *)
(* the value of every tf.Variable (or none), and a session run fails when  *)
(* a fed value does not fit, when a placeholder it needs is not fed, when  *)
(* a variable it needs holds no value or when the shapes of the run do not *)
(* agree.  Numbers are fixed point, 1000 standing for 1.0.                 *)
(***************************************************************************)
EXTENDS Integers, Sequences, FiniteSets, TLC

\* ---- bounds of the explored configurations -------------------------------
MaxDim == 2      \* input width and height range over 1..MaxDim
MaxBatch == 2    \* batch_size, and the length of a fed batch, up to MaxBatch
MaxNz == 2       \* latent dimensionality n_z in 1..MaxNz
MaxTrain == 1    \* optimizer steps explored per model instance
FnMaxBatch == 2  \* batch size of the arguments given to latent_loss
FnMaxNz == 2     \* latent dimensionality of the arguments given to latent_loss

\* ---- program constants ---------------------------------------------------
One == 1000      \* fixed-point unit: the literal 1 of latent_loss
None == -1       \* an unknown dimension of a static shape
Uninit == -1     \* a variable that holds no value in the session
Bad == <<-2>>    \* the shape of an op whose shape check fails
LabelSize == 10  \* the label_size of ConditionalVAE(10)

VARIABLES cfg, pc, params, last, z_mean, z_log_sigma_sq, fnArgs, fnOut

vars == <<cfg, pc, params, last, z_mean, z_log_sigma_sq, fnArgs, fnOut>>

Max(a, b) == IF a >= b THEN a ELSE b

RECURSIVE SumSeq(_)
SumSeq(s) == IF Len(s) = 0 THEN 0 ELSE Head(s) + SumSeq(Tail(s))

\* ---- shape arithmetic of the framework's ops -----------------------------
IsBad(s) == s = Bad

CeilDiv(a, b) == IF a = None THEN None ELSE (a + b - 1) \div b

image_size(shape, stride) ==
    <<CeilDiv(shape[1], stride[1]), CeilDiv(shape[2], stride[2])>>

Pad(s, n) == [i \in 1..n |-> IF i <= n - Len(s) THEN 1 ELSE s[i - (n - Len(s))]]

BroadcastDim(a, b) ==
    IF a = 1 THEN b
    ELSE IF b = 1 THEN a
    ELSE IF a = None THEN b
    ELSE IF b = None THEN a
    ELSE IF a = b THEN a ELSE -2

Broadcast(s, t) ==
    IF IsBad(s) \/ IsBad(t) THEN Bad
    ELSE LET n == Max(Len(s), Len(t))
             r == [i \in 1..n |-> BroadcastDim(Pad(s, n)[i], Pad(t, n)[i])]
         IN IF \E i \in 1..n : r[i] = -2 THEN Bad ELSE r

Concat(s, t, axis) ==
    IF IsBad(s) \/ IsBad(t) \/ Len(s) # Len(t) THEN Bad
    ELSE IF \E i \in 1..Len(s) :
               i # axis /\ s[i] # None /\ t[i] # None /\ s[i] # t[i]
         THEN Bad
         ELSE [i \in 1..Len(s) |->
                 IF i = axis
                 THEN (IF s[i] = None \/ t[i] = None THEN None ELSE s[i] + t[i])
                 ELSE (IF s[i] = None THEN t[i] ELSE s[i])]

ReduceSum(s, axis) ==
    IF IsBad(s) \/ Len(s) < axis + 1 THEN Bad
    ELSE [i \in 1..(Len(s) - 1) |-> IF i <= axis THEN s[i] ELSE s[i + 1]]

Flatten(s) ==
    IF IsBad(s) \/ Len(s) # 4 THEN Bad ELSE <<s[1], s[2] * s[3] * s[4]>>

Reshape4(s, a, b, c) ==
    IF IsBad(s) \/ Len(s) # 2 THEN Bad
    ELSE IF s[1] = None THEN (IF s[2] % (a * b * c) = 0 THEN <<None, a, b, c>> ELSE Bad)
    ELSE IF (s[1] * s[2]) % (a * b * c) # 0 THEN Bad
    ELSE <<(s[1] * s[2]) \div (a * b * c), a, b, c>>

\* weight_shape: width, height, input channel, output channel
convolution(x, weight_shape, stride) ==
    IF IsBad(x) \/ Len(x) # 4 THEN Bad
    ELSE IF x[4] # weight_shape[3] THEN Bad
    ELSE <<x[1], CeilDiv(x[2], stride[1]), CeilDiv(x[3], stride[2]), weight_shape[4]>>

\* weight_shape: width, height, output channel, input channel (conv2d_transpose)
deconvolution(x, weight_shape, output_shape, stride) ==
    IF IsBad(x) \/ Len(x) # 4 THEN Bad
    ELSE IF x[4] # weight_shape[4] \/ output_shape[4] # weight_shape[3] THEN Bad
    ELSE IF x[1] # None /\ x[1] # output_shape[1] THEN Bad
    ELSE IF CeilDiv(output_shape[2], stride[1]) # x[2]
            \/ CeilDiv(output_shape[3], stride[2]) # x[3] THEN Bad
    ELSE output_shape

\* weight_shape: input size, output size
full_connected(x, weight_shape) ==
    IF IsBad(x) \/ Len(x) # 2 THEN Bad
    ELSE IF x[2] # weight_shape[1] THEN Bad
    ELSE <<x[1], weight_shape[2]>>

\* shape of -tf.reduce_sum(original * log(..reconstruction) + .., 1)
reconstruction_loss(original, reconstruction) ==
    ReduceSum(Broadcast(original, Broadcast(reconstruction, original)), 1)

\* shape of -0.5 * tf.reduce_sum(1 + log_sigma_sq - square(mean) - exp(..), 1)
latent_loss_shape(latent_mean, latent_log_sigma_sq) ==
    ReduceSum(Broadcast(latent_mean, latent_log_sigma_sq), 1)

\* ---- the graph of _create_network ----------------------------------------
n_input == cfg.n_input
batch_size == cfg.batch_size
label_size == cfg.label_size
n_z == cfg.n_z

Variables ==
    {"enc_conv1_w", "enc_conv1_b", "enc_conv2_w", "enc_conv2_b",
     "enc_conv3_w", "enc_conv3_b", "enc_fc_w", "enc_fc_b",
     "dec_fc_w", "dec_fc_b", "dec_deconv1_w", "dec_deconv1_b",
     "dec_deconv2_w", "dec_deconv2_b"}

Placeholders == {"x", "y"}

\* the tensors each node of the graph is computed from
Deps(node) ==
    CASE node = "label_enc" -> {"y"}
      [] node = "enc_in" -> {"x", "label_enc"}
      [] node = "conv1" -> {"enc_in", "enc_conv1_w", "enc_conv1_b"}
      [] node = "conv2" -> {"conv1", "enc_conv2_w", "enc_conv2_b"}
      [] node = "conv3" -> {"conv2", "enc_conv3_w", "enc_conv3_b"}
      [] node = "enc_fc" -> {"conv3", "enc_fc_w", "enc_fc_b"}
      [] node = "z_mean" -> {"enc_fc"}
      [] node = "z_log_sigma_sq" -> {"enc_fc"}
      [] node = "z" -> {"z_mean", "z_log_sigma_sq", "eps"}
      [] node = "label_dec" -> {"y"}
      [] node = "dec_in" -> {"z", "label_dec"}
      [] node = "dec_fc" -> {"dec_in", "dec_fc_w", "dec_fc_b"}
      [] node = "deconv1" -> {"dec_fc", "dec_deconv1_w", "dec_deconv1_b"}
      [] node = "deconv2" -> {"deconv1", "dec_deconv2_w", "dec_deconv2_b"}
      [] node = "x_decoder_mean" -> {"deconv2"}
      [] node = "loss_1" -> {"x", "x_decoder_mean"}
      [] node = "loss_2" -> {"z_mean", "z_log_sigma_sq"}
      [] node = "loss" -> {"loss_1", "loss_2"}
      [] node = "train" -> {"loss"} \cup Variables
      [] OTHER -> {}

\* what a run that fetches node evaluates when the tensors in fed are supplied
RECURSIVE Needed(_, _)
Needed(node, fed) ==
    IF node \in fed THEN {node}
    ELSE {node} \cup UNION {Needed(d, fed) : d \in Deps(node)}

\* what each call fetches, and the tensors its feed_dict supplies
Fetch ==
    [reconstruct |-> "x_decoder_mean", encode |-> "z_mean",
     decode |-> "x_decoder_mean", train |-> "train"]

FeedKeys ==
    [reconstruct |-> {"x"}, encode |-> {"x"}, decode |-> {"z"}, train |-> {"x", "y"}]

\* the tensors the run of each call evaluates
NeededByCall ==
    [reconstruct |-> Needed(Fetch.reconstruct, FeedKeys.reconstruct),
     encode |-> Needed(Fetch.encode, FeedKeys.encode),
     decode |-> Needed(Fetch.decode, FeedKeys.decode),
     train |-> Needed(Fetch.train, FeedKeys.train)]

\* declared shapes of the two placeholders
PlaceholderShape(name) ==
    CASE name = "x" -> <<None>> \o n_input
      [] name = "y" -> <<None>>

StaticFeeds == [name \in Placeholders |-> PlaceholderShape(name)]

\* the shape a placeholder has in a run: the fed value's, else the declared one
Fed(f, name) == IF name \in DOMAIN f THEN f[name] ELSE PlaceholderShape(name)

\* _w1,_h1 and _w2,_h2 of the decoder
Stage1 == image_size(<<n_input[1], n_input[2]>>, <<2, 2>>)
Stage2 == image_size(Stage1, <<2, 2>>)

Shape_label_enc(f) ==
    Broadcast(<<batch_size, n_input[1], n_input[2], label_size>>,
              <<Fed(f, "y")[1], 1, 1, label_size>>)

Shape_enc_in(f) == Concat(Fed(f, "x"), Shape_label_enc(f), 4)

Shape_conv3(f) ==
    LET ch == n_input[3] + label_size
        c1 == convolution(Shape_enc_in(f), <<5, 5, ch, 16>>, <<2, 2>>)
        c2 == convolution(c1, <<5, 5, 16, 32>>, <<2, 2>>)
    IN convolution(c2, <<5, 5, 32, 64>>, <<2, 2>>)

Shape_enc_fc(f) ==
    LET flat == Flatten(Shape_conv3(f))
    IN IF IsBad(flat) THEN Bad ELSE full_connected(flat, <<flat[2], n_z>>)

Shape_z_mean(f) == Shape_enc_fc(f)

Shape_z_log_sigma_sq(f) == Shape_enc_fc(f)

Shape_z(f) ==
    IF "z" \in DOMAIN f THEN f["z"]
    ELSE Broadcast(Shape_z_mean(f),
                   Broadcast(Shape_z_log_sigma_sq(f), <<batch_size, n_z>>))

Shape_dec_in(f) == Concat(Shape_z(f), <<Fed(f, "y")[1], label_size>>, 2)

Shape_dec_fc(f) ==
    full_connected(Shape_dec_in(f),
                   <<n_z + label_size, Stage2[1] * Stage2[2] * 16>>)

Shape_dec_reshape(f) == Reshape4(Shape_dec_fc(f), Stage2[1], Stage2[2], 16)

Shape_deconv1(f) ==
    deconvolution(Shape_dec_reshape(f), <<5, 5, 8, 16>>,
                  <<batch_size, Stage1[1], Stage1[2], 8>>, <<2, 2>>)

Shape_deconv2(f) ==
    deconvolution(Shape_deconv1(f), <<5, 5, 1, 8>>,
                  <<batch_size, n_input[1], n_input[2], 1>>, <<2, 2>>)

Shape_x_decoder_mean(f) == Shape_deconv2(f)

Shape_loss_1(f) == reconstruction_loss(Fed(f, "x"), Shape_x_decoder_mean(f))

Shape_loss_2(f) == latent_loss_shape(Shape_z_mean(f), Shape_z_log_sigma_sq(f))

Shape_loss_sum(f) == Broadcast(Shape_loss_1(f), Shape_loss_2(f))

Shape_loss(f) == IF IsBad(Shape_loss_sum(f)) THEN Bad ELSE <<>>

ShapeOf(node, f) ==
    CASE node = "x_decoder_mean" -> Shape_x_decoder_mean(f)
      [] node = "z_mean" -> Shape_z_mean(f)
      [] node = "train" -> Shape_loss(f)

\* static shapes of the tensors a caller feeds: the placeholders and self.z
StaticShape(name) ==
    IF name = "z" THEN Shape_z(StaticFeeds) ELSE PlaceholderShape(name)

\* every op of _create_network passes its shape check
BuildOK == ~IsBad(Shape_loss(StaticFeeds))

\* ---- values ---------------------------------------------------------------
\* dense-layer outputs of the encoder explored per latent component
LatentVals == {-1000, 1000}

\* tf.exp in fixed point
Exp(v) == CASE v = -1000 -> 368 [] v = 0 -> 1000 [] v = 1000 -> 2718

\* tf.nn.softplus in fixed point: log(1 + exp(v))
Softplus(v) == CASE v = -1000 -> 313 [] v = 0 -> 693 [] v = 1000 -> 1313

\* self.activation: tf.nn.softplus by default, or a relu
activation(v) == IF cfg.activation = "relu" THEN Max(0, v) ELSE Softplus(v)

latent_loss_no_one(latent_mean, latent_log_sigma_sq) ==
    [i \in 1..Len(latent_mean) |->
        (-5 * SumSeq([j \in 1..Len(latent_mean[i]) |->
                        latent_log_sigma_sq[i][j]
                        - (latent_mean[i][j] * latent_mean[i][j]) \div One
                        - Exp(latent_log_sigma_sq[i][j])])) \div 10]

\* -0.5 * tf.reduce_sum(1 + log_sigma_sq - square(mean) - exp(log_sigma_sq), 1)
latent_loss(latent_mean, latent_log_sigma_sq) ==
    [i \in 1..Len(latent_mean) |->
        (-5 * SumSeq([j \in 1..Len(latent_mean[i]) |->
                        One + latent_log_sigma_sq[i][j]
                        - (latent_mean[i][j] * latent_mean[i][j]) \div One
                        - Exp(latent_log_sigma_sq[i][j])])) \div 10]

\* self.z_mean = self.activation(_layer)
z_mean_of(layer) == [j \in 1..Len(layer) |-> activation(layer[j])]

z_log_sigma_sq_linear(layer) == layer

\* self.z_log_sigma_sq = self.activation(_layer)
z_log_sigma_sq_of(layer) == [j \in 1..Len(layer) |-> activation(layer[j])]

\* ---- the session ----------------------------------------------------------
\* a fed value must be compatible with the declared shape of its tensor
FeedFits(f) ==
    \A name \in DOMAIN f :
        /\ Len(f[name]) = Len(StaticShape(name))
        /\ \A i \in 1..Len(f[name]) : StaticShape(name)[i] \in {None, f[name][i]}

\* the errors the sess.run of a call can raise with feed_dict f; when several
\* apply the executor reports whichever op fails first
RunErrors(op, f) ==
    IF ~FeedFits(f) THEN {"ValueError"}
    ELSE LET need == NeededByCall[op]
         IN (IF (need \cap Placeholders) \ DOMAIN f # {} \/ IsBad(ShapeOf(Fetch[op], f))
             THEN {"InvalidArgumentError"} ELSE {})
            \cup
            (IF \E v \in need \cap Variables : params[v] = Uninit
             THEN {"FailedPreconditionError"} ELSE {})

RunOutcomes(op, f) ==
    LET errs == RunErrors(op, f) IN IF errs = {} THEN {"none"} ELSE errs

Updated == [v \in Variables |-> IF params[v] = Uninit THEN Uninit ELSE params[v] + 1]

session_run_effect_eager(fetch, err) ==
    IF err \in {"none", "InvalidArgumentError"} THEN Updated ELSE params

\* the variables after a run: only the train op assigns, and only when it runs
session_run_effect(fetch, err) ==
    IF fetch = "train" /\ err = "none" THEN Updated ELSE params

\* the sess.run of a call with feed_dict f.  z_mean and z_log_sigma_sq are the latent
\* values of this run (of its first sample), none when the run fails or does
\* not evaluate the encoder: they do not outlive the run.
SessRun(op, arg, f) ==
    /\ \E err \in RunOutcomes(op, f) :
        /\ last' = [op |-> op, arg |-> arg, ran |-> TRUE, err |-> err,
                    out |-> IF err = "none" THEN ShapeOf(Fetch[op], f) ELSE <<>>]
        /\ params' = session_run_effect(Fetch[op], err)
        /\ IF err = "none" /\ "enc_fc" \in NeededByCall[op]
           THEN \E layer \in [1..n_z -> LatentVals] :
                    /\ z_mean' = z_mean_of(layer)
                    /\ z_log_sigma_sq' = z_log_sigma_sq_of(layer)
           ELSE z_mean' = <<>> /\ z_log_sigma_sq' = <<>>
    /\ UNCHANGED <<cfg, pc, fnArgs, fnOut>>

\* ---- construction ---------------------------------------------------------
\* grey-scale and colour images
Channels == {1, 3}

Architectures ==
    {<<w, h, c>> : w \in 1..MaxDim, h \in 1..MaxDim, c \in Channels}

Configs ==
    [n_input : Architectures, n_z : 1..MaxNz, label_size : {LabelSize},
     batch_size : 1..MaxBatch, activation : {"softplus", "relu"},
     load_model : {"None", "given", "missing"}]

\* network_architecture and the keyword defaults of __init__
DefaultConfig ==
    [n_input |-> <<28, 28, 1>>, n_z |-> 20, label_size |-> 10,
     batch_size |-> 100, activation |-> "softplus", load_model |-> "None"]

NoValues == [v \in Variables |-> Uninit]

\* the values saver.restore assigns; a value counts the optimizer steps since
Checkpoint == [v \in Variables |-> 0]

NoCall == [op |-> "none", arg |-> <<>>, ran |-> FALSE, err |-> "none", out |-> <<>>]

NoArgs == [mean |-> <<>>, log_sigma_sq |-> <<>>]

Init ==
    /\ cfg \in Configs
    /\ pc = "new"
    /\ params = NoValues
    /\ last = NoCall
    /\ z_mean = <<>>
    /\ z_log_sigma_sq = <<>>
    /\ fnArgs = NoArgs
    /\ fnOut = <<>>

\* __init__: build the graph, open the session, restore when load_model is set.
\* No initializer op is run: without load_model the variables hold no value.
Construct ==
    /\ pc = "new"
    /\ pc' = IF ~BuildOK THEN "build_error"
             ELSE IF cfg.load_model = "missing" THEN "restore_error"
             ELSE "ready"
    /\ params' = IF BuildOK /\ cfg.load_model = "given" THEN Checkpoint ELSE NoValues
    /\ last' = [NoCall EXCEPT !.op = "construct",
                              !.err = IF ~BuildOK THEN "ValueError"
                                      ELSE IF cfg.load_model = "missing"
                                      THEN "NotFoundError" ELSE "none"]
    /\ UNCHANGED <<cfg, z_mean, z_log_sigma_sq, fnArgs, fnOut>>

\* ---- public operations ----------------------------------------------------
\* batches a caller can pass, by their array shape: n images of the
\* configured shape, or batch_size images without the channel axis
InputBatches ==
    {<<n>> \o n_input : n \in 0..MaxBatch}
    \cup {<<batch_size, n_input[1], n_input[2]>>}

LabelBatches == {<<m>> : m \in 1..MaxBatch}

ZNone == <<None>>

ZArgs == {ZNone} \cup {<<n_z>>} \cup {<<k, n_z>> : k \in 1..MaxBatch}

batch_size_unchecked(inputs) == TRUE

\* assert len(inputs) == self.batch_size
batch_size_ok(inputs) == inputs[1] = batch_size

reconstruct ==
    /\ pc = "ready"
    /\ \E inputs \in InputBatches :
        IF ~batch_size_ok(inputs)
        THEN /\ last' = [op |-> "reconstruct", arg |-> inputs, ran |-> FALSE,
                         err |-> "AssertionError", out |-> <<>>]
             /\ UNCHANGED <<cfg, pc, params, z_mean, z_log_sigma_sq,
                            fnArgs, fnOut>>
        ELSE SessRun("reconstruct", inputs,
                     [name \in FeedKeys.reconstruct |-> inputs])

encode ==
    /\ pc = "ready"
    /\ \E inputs \in InputBatches :
        SessRun("encode", inputs, [name \in FeedKeys.encode |-> inputs])

decode ==
    /\ pc = "ready"
    /\ \E arg \in ZArgs :
        LET z == IF arg = ZNone THEN <<n_z>> ELSE arg
        IN SessRun("decode", arg, [name \in FeedKeys.decode |-> z])

\* a caller's optimizer step: sess.run(model.train, {model.x: xs, model.y: ys})
TrainStep ==
    /\ pc = "ready"
    /\ params["enc_fc_w"] < MaxTrain
    /\ \E xs \in InputBatches, ys \in LabelBatches :
        SessRun("train", xs, [name \in FeedKeys.train |->
                                 IF name = "x" THEN xs ELSE ys])

Next == Construct \/ reconstruct \/ encode \/ decode \/ TrainStep

Spec == Init /\ [][Next]_vars

\* ---- the loss functions on their own --------------------------------------
\* the arguments latent_loss is evaluated on: the prior's 0 and one other value
MeanVals == {0, 1000}

LogSigmaSqVals == {-1000, 0}

LatentArgs ==
    UNION {[mean : [1..b -> [1..k -> MeanVals]],
            log_sigma_sq : [1..b -> [1..k -> LogSigmaSqVals]]] :
           b \in 1..FnMaxBatch, k \in 1..FnMaxNz}

InitFn ==
    /\ cfg = DefaultConfig
    /\ pc = "new"
    /\ params = NoValues
    /\ last = NoCall
    /\ z_mean = <<>>
    /\ z_log_sigma_sq = <<>>
    /\ fnArgs \in LatentArgs
    /\ fnOut = <<>>

EvalLatentLoss ==
    /\ fnOut = <<>>
    /\ fnOut' = latent_loss(fnArgs.mean, fnArgs.log_sigma_sq)
    /\ UNCHANGED <<cfg, pc, params, last, z_mean, z_log_sigma_sq, fnArgs>>

NextFn == EvalLatentLoss

SpecFn == InitFn /\ [][NextFn]_vars

\* ---- properties -----------------------------------------------------------
PublicOps == {"reconstruct", "encode", "decode"}

Initialized == \A v \in Variables : params[v] # Uninit

ImageBatch(n) == <<n>> \o n_input

AllZero(m) == \A i \in 1..Len(m) : \A j \in 1..Len(m[i]) : m[i][j] = 0

\* the decoder's shapes as graph construction computes them: both transposed
\* convolutions accept their input, and the output has the input's width and
\* height
DecoderStagesConsistent ==
    /\ Tail(Shape_dec_reshape(StaticFeeds)) = <<Stage2[1], Stage2[2], 16>>
    /\ Shape_deconv1(StaticFeeds) = <<batch_size, Stage1[1], Stage1[2], 8>>
    /\ Shape_x_decoder_mean(StaticFeeds) = <<batch_size, n_input[1], n_input[2], 1>>

\* C1: a reconstruct call whose batch length differs from batch_size fails with
\* an assertion error, without a session run, and leaves the parameters and
\* the session as they were.
C1_ReconstructRejectsWrongBatch ==
    [][(last'.op = "reconstruct" /\ last'.arg[1] # batch_size)
          => (/\ last'.err = "AssertionError"
              /\ last'.ran = FALSE
              /\ params' = params
              /\ pc' = pc
              /\ z_mean' = z_mean
              /\ z_log_sigma_sq' = z_log_sigma_sq)]_vars

C1_Witness ==
    /\ last.op = "reconstruct"
    /\ last.arg[1] # batch_size
    /\ last.err = "AssertionError"
    /\ ~last.ran
    /\ params["enc_fc_w"] = 1

\* C2: reconstruct called with exactly batch_size images completes without
\* error and returns one reconstructed image per input image.
C2_ReconstructCompletes ==
    (last.op = "reconstruct" /\ last.arg = ImageBatch(batch_size))
        => (last.err = "none" /\ Len(last.out) = 4 /\ last.out[1] = batch_size)

\* C3: decode(z=None) returns an output of the configured image shape, on
\* every call.
C3_DecodePriorReturnsImage ==
    (last.op = "decode" /\ last.arg = ZNone)
        => (last.err = "none" /\ last.out # <<>>
            /\ SubSeq(last.out, Len(last.out) - 2, Len(last.out)) = n_input)

\* C4: encode of a batch of images of the configured shape completes and
\* returns one n_z-dimensional latent mean per image.
C4_EncodeCompletes ==
    (last.op = "encode" /\ last.arg = ImageBatch(last.arg[1]))
        => (last.err = "none" /\ last.out = <<last.arg[1], n_z>>)

\* C5: for every architecture the decoder stages are shape-consistent and
\* construction does not fail while the graph is built.
C5_ConstructionShapeConsistent ==
    (pc # "new") => (DecoderStagesConsistent /\ pc # "build_error")

\* C6: when construction has finished every weight and bias holds a value in
\* the session, the checkpoint's when load_model was given.
C6_ParametersInitialized ==
    (pc = "ready" /\ last.op = "construct")
        => (Initialized /\ (cfg.load_model = "given" => params = Checkpoint))

\* C7: reconstruct, encode and decode, successful or failing, leave every
\* weight and bias as it was.
C7_PublicOpsKeepParameters ==
    [][(last'.op \in PublicOps) => (params' = params)]_vars

C7_Witness ==
    /\ last.op = "decode"
    /\ last.err = "InvalidArgumentError"
    /\ params["dec_fc_w"] = 1

\* C8: reconstruction_loss of image tensors has one value per sample, shape
\* [batch], and so has its sum with latent_loss.
C8_ReconstructionLossPerSample ==
    (pc = "ready")
        => (/\ Len(Shape_loss_1(StaticFeeds)) = 1
            /\ Len(Shape_loss_sum(StaticFeeds)) = 1)

\* C9: latent_loss of an all-zero mean and an all-zero log variance is 0 for
\* every sample, whatever the batch size and the latent dimensionality.
C9_LatentLossZeroAtPrior ==
    (fnOut # <<>> /\ AllZero(fnArgs.mean) /\ AllZero(fnArgs.log_sigma_sq))
        => (Len(fnOut) = Len(fnArgs.mean) /\ \A i \in 1..Len(fnOut) : fnOut[i] = 0)

C9_Witness ==
    /\ fnOut # <<>>
    /\ AllZero(fnArgs.mean)
    /\ AllZero(fnArgs.log_sigma_sq)
    /\ Len(fnArgs.mean) >= 2
    /\ Len(fnArgs.mean[1]) >= 2

\* C10: on every forward pass the latent mean and the latent log variance are
\* the same vector, component by component.
C10_MeanEqualsLogVariance ==
    /\ Len(z_mean) = Len(z_log_sigma_sq)
    /\ \A j \in 1..Len(z_mean) : z_mean[j] = z_log_sigma_sq[j]

C10_Witness ==
    /\ last.op = "train"
    /\ last.err = "none"
    /\ Len(z_mean) = n_z
    /\ \E j \in 1..Len(z_mean) : z_mean[j] # 0

\* ---- what the operations do instead --------------------------------------
\* no reconstruct, encode or decode call ever completes: each fetch needs the
\* label placeholder, which none of them feeds
PublicOpsAlwaysFail == (last.op \in PublicOps) => (last.err # "none")

\* the decoder stages agree for every architecture
DecoderAlwaysConsistent == DecoderStagesConsistent

\* a restored model holds the checkpoint's values
RestoredIsInitialized ==
    (pc = "ready" /\ cfg.load_model = "given") => Initialized

\* graph construction fails exactly when the loss sum cannot broadcast
BuildFailsOnlyInLoss ==
    (pc = "build_error")
        => (/\ ~IsBad(Shape_loss_1(StaticFeeds))
            /\ ~IsBad(Shape_loss_2(StaticFeeds))
            /\ IsBad(Shape_loss_sum(StaticFeeds))
            /\ n_input[3] \notin {1, batch_size} /\ batch_size # 1)

====
